---------------------------- MODULE Spec2Model ----------------------------
(***************************************************************************)
(* Escape-time fractal viewer (Mandelbrot / Julia): the per-frame Update   *)
(* and Draw handlers of Game, the escape evaluators mandelbrot and julia,  *)
(* and the colour lookup getColor.                                         *)
(*                                                                         *)
(* Every float64 of the program is modelled as a decimal floating-point    *)
(* number with a four-digit significand, the exponent range of float64,    *)
(* round-half-even after every operation, and the IEEE specials +Inf, -Inf *)
(* and NaN.  A finite value is [c |-> "fin", m |-> M, e |-> E], standing   *)
(* for M * 10^E with M = 0 or 1000 <= |M| <= 9999.  The sign of zero is    *)
(* not modelled.                                                           *)
(***************************************************************************)
EXTENDS Integers, Sequences, FiniteSets

---------------------------------------------------------------------------
(* float64: representation *)

MantLo == 1000
MantHi == 9999
\* largest finite float64 is 1.797e308, smallest positive 4.941e-324
ExpMax == 305
MantAtExpMax == 1797
ExpMin == -327

Zero == [c |-> "fin", m |-> 0, e |-> 0]
NaN == [c |-> "nan", m |-> 0, e |-> 0]
Inf(s) == [c |-> "inf", m |-> s, e |-> 0]
PosInf == Inf(1)
NegInf == Inf(-1)

IsNaN(a) == a.c = "nan"
IsInf(a) == a.c = "inf"
IsFinite(a) == a.c = "fin"
IsZero(a) == a.c = "fin" /\ a.m = 0

Abs(i) == IF i < 0 THEN -i ELSE i
Sign(i) == IF i < 0 THEN -1 ELSE IF i = 0 THEN 0 ELSE 1
\* sign of a float64 that is not NaN
Sgn(a) == Sign(a.m)

Pow10(k) == <<1, 10, 100, 1000, 10000, 100000, 1000000, 10000000,
              100000000, 1000000000>>[k + 1]

NumDigits(n) ==
    IF n < 10 THEN 1 ELSE IF n < 100 THEN 2 ELSE IF n < 1000 THEN 3
    ELSE IF n < 10000 THEN 4 ELSE IF n < 100000 THEN 5
    ELSE IF n < 1000000 THEN 6 ELSE IF n < 10000000 THEN 7
    ELSE IF n < 100000000 THEN 8 ELSE IF n < 1000000000 THEN 9 ELSE 10

\* a significand in MantLo..MantHi with its exponent: overflow gives an
\* infinity, underflow gives zero
Pack(s, m, e) ==
    IF e > ExpMax \/ (e = ExpMax /\ m > MantAtExpMax) THEN Inf(s)
    ELSE IF e < ExpMin THEN Zero
    ELSE [c |-> "fin", m |-> s * m, e |-> e]

\* s * n * 10^e rounded to the nearest float64, ties to even (n >= 0)
Round(s, n, e) ==
    LET Carry(q, ex) ==
            IF q > MantHi THEN Pack(s, MantLo, ex + 1) ELSE Pack(s, q, ex)
        Cut(q, r, half, ex) ==
            Carry(IF r > half \/ (r = half /\ q % 2 = 1) THEN q + 1 ELSE q,
                  ex)
        Drop(p, k) == Cut(n \div p, n % p, p \div 2, e + k)
        Digits(d) ==
            IF d <= 4 THEN Pack(s, n * Pow10(4 - d), e - (4 - d))
            ELSE Drop(Pow10(d - 4), d - 4)
    IN IF n = 0 THEN Zero ELSE Digits(NumDigits(n))

\* the float64 nearest to the decimal literal n * 10^e
Dec(n, e) == Round(IF n < 0 THEN -1 ELSE 1, Abs(n), e)

\* float64(i)
FromInt(i) == Dec(i, 0)

---------------------------------------------------------------------------
(* float64: arithmetic and comparison *)

FNeg(a) == IF IsNaN(a) THEN NaN ELSE [a EXCEPT !.m = -a.m]

FMul(a, b) ==
    IF IsNaN(a) \/ IsNaN(b) THEN NaN
    ELSE IF IsInf(a) \/ IsInf(b)
         THEN IF IsZero(a) \/ IsZero(b) THEN NaN ELSE Inf(Sgn(a) * Sgn(b))
    ELSE Round(Sgn(a) * Sgn(b), Abs(a.m) * Abs(b.m), a.e + b.e)

FAddFin(hi, lo) ==
    LET Sum(sum) == Round(IF sum < 0 THEN -1 ELSE 1, Abs(sum), lo.e)
        Shift(d) == IF d > 5 THEN hi ELSE Sum(hi.m * Pow10(d) + lo.m)
    IN Shift(hi.e - lo.e)

FAdd(a, b) ==
    IF IsNaN(a) \/ IsNaN(b) THEN NaN
    ELSE IF IsInf(a) /\ IsInf(b) THEN (IF a.m = b.m THEN a ELSE NaN)
    ELSE IF IsInf(a) THEN a
    ELSE IF IsInf(b) THEN b
    ELSE IF a.m = 0 THEN b
    ELSE IF b.m = 0 THEN a
    ELSE IF a.e >= b.e THEN FAddFin(a, b) ELSE FAddFin(b, a)

FSub(a, b) == FAdd(a, FNeg(b))

FDiv(a, b) ==
    IF IsNaN(a) \/ IsNaN(b) THEN NaN
    ELSE IF IsInf(a)
         THEN IF IsInf(b) THEN NaN
              ELSE Inf(Sgn(a) * (IF Sgn(b) < 0 THEN -1 ELSE 1))
    ELSE IF IsInf(b) THEN Zero
    ELSE IF b.m = 0 THEN (IF a.m = 0 THEN NaN ELSE Inf(Sgn(a)))
    ELSE IF a.m = 0 THEN Zero
    ELSE LET Quot(n, d) ==
                 Round(Sgn(a) * Sgn(b),
                       (n \div d) * 10 + (IF n % d = 0 THEN 0 ELSE 1),
                       a.e - b.e - 6)
         IN Quot(Abs(a.m) * Pow10(5), Abs(b.m))

\* a < b for two values that are not NaN
LtOrd(a, b) ==
    LET MagLt(u, v) ==
            IF IsInf(u) THEN FALSE
            ELSE IF IsInf(v) THEN TRUE
            ELSE u.e < v.e \/ (u.e = v.e /\ Abs(u.m) < Abs(v.m))
    IN IF Sgn(a) # Sgn(b) THEN Sgn(a) < Sgn(b)
       ELSE IF Sgn(a) = 0 THEN FALSE
       ELSE IF Sgn(a) > 0 THEN MagLt(a, b)
       ELSE MagLt(b, a)

FLt(a, b) == ~IsNaN(a) /\ ~IsNaN(b) /\ LtOrd(a, b)
FLe(a, b) == ~IsNaN(a) /\ ~IsNaN(b) /\ ~LtOrd(b, a)
FGt(a, b) == FLt(b, a)
FGe(a, b) == FLe(b, a)

\* math.Min and math.Max
MathMin(x, y) ==
    IF x = NegInf \/ y = NegInf THEN NegInf
    ELSE IF IsNaN(x) \/ IsNaN(y) THEN NaN
    ELSE IF LtOrd(x, y) THEN x ELSE y

MathMax(x, y) ==
    IF x = PosInf \/ y = PosInf THEN PosInf
    ELSE IF IsNaN(x) \/ IsNaN(y) THEN NaN
    ELSE IF LtOrd(y, x) THEN x ELSE y

---------------------------------------------------------------------------
(* float64: math.Log, math.Pow and the conversion int(f) *)

One == FromInt(1)
Two == FromInt(2)
Four == FromInt(4)

\* binary fixed point used inside Log: LogQ = 2^14 units per 1
LogQ == 16384

\* the fraction bits of log2(u / LogQ) for LogQ <= u < 2 * LogQ, by
\* repeated squaring, in units of 1 / LogQ; bit is the weight of the next bit
RECURSIVE Log2Frac(_, _)
Log2Frac(u, bit) ==
    LET Squared(u2) ==
            IF u2 >= 2 * LogQ
            THEN bit + Log2Frac(u2 \div 2, bit \div 2)
            ELSE Log2Frac(u2, bit \div 2)
    IN IF bit = 0 THEN 0 ELSE Squared((u * u) \div LogQ)

\* ln(a) for a finite a > 0, in units of 1 / LogQ:
\* ln(m * 10^e) = log2(m / 1000) * ln 2 + (e + 3) * ln 10
LnFixed(a) ==
    LET LnMant(l2) == (l2 * 693) \div 1000 + (l2 * 147) \div 1000000
        Log2(k) ==
            k * LogQ + Log2Frac((a.m * LogQ) \div (1000 * <<1, 2, 4, 8>>[k + 1]),
                                LogQ \div 2)
        k0 == IF a.m < 2000 THEN 0 ELSE IF a.m < 4000 THEN 1
              ELSE IF a.m < 8000 THEN 2 ELSE 3
    IN LnMant(Log2(k0)) + ((a.e + 3) * 3772555) \div 100

\* math.Log
MathLog(a) ==
    IF IsNaN(a) THEN NaN
    ELSE IF a = PosInf THEN PosInf
    ELSE IF Sgn(a) < 0 THEN NaN
    ELSE IF a.m = 0 THEN NegInf
    ELSE LET Decimal(t) ==
                 Round(IF t < 0 THEN -1 ELSE 1,
                       (Abs(t) \div LogQ) * 100000
                           + ((Abs(t) % LogQ) * 100000) \div LogQ,
                       -5)
         IN Decimal(LnFixed(a))

\* x^n by repeated squaring, every product rounded
RECURSIVE PowInt(_, _)
PowInt(x, n) ==
    IF n = 0 THEN One
    ELSE IF n = 1 THEN x
    ELSE IF n % 2 = 1 THEN FMul(x, PowInt(FMul(x, x), n \div 2))
    ELSE PowInt(FMul(x, x), n \div 2)

\* math.Pow(x, y) for a whole-number exponent y = n >= 0
MathPow(x, n) ==
    IF n = 0 \/ x = One THEN One
    ELSE IF IsNaN(x) THEN NaN
    ELSE PowInt(x, n)

\* int(f): truncation toward zero.  The Go specification leaves the result
\* of converting NaN, an infinity or a value beyond the range of int to the
\* implementation: an amd64 build gives the smallest integer, an arm64 build
\* gives 0 for NaN and the largest or smallest integer otherwise.  The
\* largest integer of the model stands for every integer beyond it.
Archs == {"amd64", "arm64"}

IntOf(arch, f) ==
    IF IsNaN(f) THEN (IF arch = "amd64" THEN -2147483647 ELSE 0)
    ELSE IF IsInf(f) \/ f.e > 15 \/ (f.e = 15 /\ Abs(f.m) > 9223)
         THEN (IF arch = "amd64" THEN -2147483647 ELSE Sgn(f) * 2147483647)
    ELSE IF f.e > 5 THEN Sgn(f) * 2147483647
    ELSE IF f.e >= 0 THEN f.m * Pow10(f.e)
    ELSE IF f.e < -4 THEN 0
    ELSE Sgn(f) * (Abs(f.m) \div Pow10(-f.e))

---------------------------------------------------------------------------
(* the escape evaluators and the colour lookup *)

FractalMandelbrot == 0
FractalJulia == 1

\* the loop shared by mandelbrot and julia: the point and the iteration
\* count on leaving it
RECURSIVE EscapeLoop(_, _, _, _, _, _)
EscapeLoop(x, y, cx, cy, iteration, maxIter) ==
    IF FLe(FAdd(FMul(x, x), FMul(y, y)), Four) /\ iteration < maxIter
    THEN LET xTemp == FAdd(FSub(FMul(x, x), FMul(y, y)), cx)
             yNext == FAdd(FMul(FMul(Two, x), y), cy)
         IN EscapeLoop(xTemp, yNext, cx, cy, iteration + 1, maxIter)
    ELSE [x |-> x, y |-> y, iteration |-> iteration]

\* Smooth without the logarithmic term
SmoothCount(z, maxIter) ==
    IF z.iteration < maxIter
    THEN FAdd(FromInt(z.iteration), One)
    ELSE FromInt(maxIter)

\* the value returned after the loop
Smooth(z, maxIter) ==
    IF z.iteration < maxIter
    THEN LET logZn == FDiv(MathLog(FAdd(FMul(z.x, z.x), FMul(z.y, z.y))), Two)
         IN FSub(FAdd(FromInt(z.iteration), One),
                 FDiv(MathLog(logZn), MathLog(Two)))
    ELSE FromInt(maxIter)

mandelbrot(cx, cy, maxIter) ==
    Smooth(EscapeLoop(Zero, Zero, cx, cy, 0, maxIter), maxIter)

julia(x, y, cx, cy, maxIter) ==
    Smooth(EscapeLoop(x, y, cx, cy, 0, maxIter), maxIter)

colorMapping ==
    << <<66, 30, 15, 255>>, <<25, 7, 26, 255>>, <<9, 1, 47, 255>>,
       <<4, 4, 73, 255>>, <<0, 7, 100, 255>>, <<12, 44, 138, 255>>,
       <<24, 82, 177, 255>>, <<57, 125, 209, 255>>, <<134, 181, 229, 255>>,
       <<211, 236, 248, 255>>, <<241, 233, 191, 255>>, <<248, 201, 95, 255>>,
       <<255, 170, 0, 255>>, <<204, 128, 0, 255>>, <<153, 87, 0, 255>>,
       <<106, 52, 3, 255>> >>

\* color.RGBA{}
NoColor == <<0, 0, 0, 0>>

\* a % n of Go: the remainder takes the sign of a
GoRem(a, n) == IF a >= 0 THEN a % n ELSE -((-a) % n)

\* the index at which getColor reads the palette, -1 when it reads none
PaletteIndex(iterations, maxIter) ==
    IF iterations < maxIter /\ iterations > 0
    THEN GoRem(iterations, Len(colorMapping))
    ELSE -1

\* getColor that takes a count of 0 for an index
getColorFromZero(iterations, maxIter) ==
    IF iterations < maxIter /\ iterations >= 0
    THEN colorMapping[GoRem(iterations, Len(colorMapping)) + 1]
    ELSE NoColor

getColor(iterations, maxIter) ==
    IF iterations < maxIter /\ iterations > 0
    THEN colorMapping[GoRem(iterations, Len(colorMapping)) + 1]
    ELSE NoColor

---------------------------------------------------------------------------
(* the game: state, inputs, Update and Draw *)

VARIABLES
    program,  \* which of the two programs runs: "Mandelbrot Set" (one
              \* fractal, no toggle button) or "Fractals" (both fractals)
    arch,     \* the architecture the program was built for
    g,        \* the Game struct
    mouse,    \* the host's mouse: left button and cursor position
    screen,   \* the colour of every pixel as the latest Draw left it
    lastOp,   \* the latest handler the host called: "main", "Update", "Draw"
    arg,      \* a direct call of an evaluator or of the colour lookup
    ret       \* and what it returned

vars == <<program, arch, g, mouse, screen, lastOp, arg, ret>>

Programs == {"Mandelbrot Set", "Fractals"}

\* the screen of Layout (640 x 480 in the source), as a small grid
ScreenW == 2
ScreenH == 1
Pixels == (0 .. ScreenW - 1) \X (0 .. ScreenH - 1)

\* maxIter of Draw (100 and 200 in the source), as a small budget
DrawMaxIter == 6

\* what the host's mouse may show
MouseStates ==
    {[pressed |-> FALSE, x |-> 99, y |-> 170]}
    \cup {[pressed |-> TRUE, x |-> 99, y |-> cy] :
             cy \in {69, 70, 170, 270, 271, 300}}
    \cup {[pressed |-> TRUE, x |-> 100, y |-> 170]}

\* what the host's clock may show: whole seconds since g.lastUpdate
ElapsedChoices == {0, 600, 2000}

NoCall == [fn |-> "none", x |-> Zero, y |-> Zero, cx |-> Zero, cy |-> Zero,
           v |-> Zero, maxIter |-> 0]
NoResult == [done |-> FALSE, value |-> Zero, index |-> -1, color |-> NoColor]

\* the Game literal of main
NewGame(prog) ==
    [minX |-> Dec(-25, -1), maxX |-> Dec(10, -1),
     minY |-> Dec(-15, -1), maxY |-> Dec(15, -1),
     centerX |-> IF prog = "Fractals" THEN Dec(42884, -5)
                 ELSE Dec(-744539860, -9),
     centerY |-> IF prog = "Fractals" THEN Dec(-231345, -6)
                 ELSE Dec(121723773, -9),
     juliaX |-> Zero, juliaY |-> Zero,
     zoom |-> Zero,
     zoomSpeed |-> Dec(1, -2),
     fractalType |-> FractalMandelbrot]

GameInit ==
    /\ program \in Programs
    /\ arch \in Archs
    /\ g = NewGame(program)
    /\ mouse = [pressed |-> FALSE, x |-> 99, y |-> 170]
    /\ screen = [p \in Pixels |-> NoColor]
    /\ lastOp = "main"

Init == GameInit /\ arg = NoCall /\ ret = NoResult

\* toggleFractal without the capture of the centre
toggleKindOnly(gm) == [gm EXCEPT !.fractalType = (gm.fractalType + 1) % 2]

toggleFractal(gm) ==
    LET Switched(t) ==
            IF t = FractalJulia
            THEN [gm EXCEPT !.fractalType = t, !.juliaX = gm.centerX,
                            !.juliaY = gm.centerY]
            ELSE [gm EXCEPT !.fractalType = t]
    IN Switched((gm.fractalType + 1) % 2)

\* SliderSpeed with the division done on the integers
SliderSpeedIntDiv(y) == FMul(FromInt((y - 70) \div 200), Dec(5, -1))

\* the zoom speed the slider gives for cursor height y
SliderSpeed(y) == FMul(FDiv(FromInt(y - 70), FromInt(200)), Dec(5, -1))

\* the sidebar interaction of Update
Sidebar(prog, gm, in) ==
    IF in.pressed /\ in.x < 100
    THEN IF in.y >= 70 /\ in.y <= 270
         THEN [gm EXCEPT !.zoomSpeed = SliderSpeed(in.y)]
         ELSE IF prog = "Fractals" /\ in.y >= 300 /\ in.y <= 340
              THEN toggleFractal(gm)
              ELSE gm
    ELSE gm

\* the zoom step of Update
AdvanceZoom(gm, seconds) ==
    [gm EXCEPT !.zoom =
        MathMax(One,
                MathMin(FMul(gm.zoom,
                             MathPow(FAdd(One, gm.zoomSpeed), seconds)),
                        Dec(1, 15)))]

\* elapsed := now.Sub(g.lastUpdate).Seconds(); g.lastUpdate = now
Update(seconds) ==
    /\ g' = AdvanceZoom(Sidebar(program, g, mouse), seconds)
    /\ lastOp' = "Update"
    /\ UNCHANGED <<program, arch, mouse, screen, arg, ret>>

\* the user moves the mouse, presses or releases the button
MouseEvent(m) ==
    /\ mouse' = m
    /\ UNCHANGED <<program, arch, g, screen, lastOp, arg, ret>>

\* the rectangle of the plane that Draw shows
View(gm) ==
    LET Around(width, height) ==
            [minX |-> FSub(gm.centerX, FDiv(width, Two)),
             maxX |-> FAdd(gm.centerX, FDiv(width, Two)),
             minY |-> FSub(gm.centerY, FDiv(height, Two)),
             maxY |-> FAdd(gm.centerY, FDiv(height, Two))]
    IN Around(FDiv(FSub(gm.maxX, gm.minX), gm.zoom),
              FDiv(FSub(gm.maxY, gm.minY), gm.zoom))

\* PixelToPlane with the two pixel coordinates exchanged
PixelToPlaneSwapped(v, x, y, w, h) ==
    [cx |-> FAdd(v.minX, FDiv(FMul(FSub(v.maxX, v.minX), FromInt(y)),
                              FromInt(w))),
     cy |-> FAdd(v.minY, FDiv(FMul(FSub(v.maxY, v.minY), FromInt(x)),
                              FromInt(h)))]

\* the point of the plane Draw gives pixel (x, y) of a w x h screen showing
\* the rectangle v
PixelToPlane(v, x, y, w, h) ==
    [cx |-> FAdd(v.minX, FDiv(FMul(FSub(v.maxX, v.minX), FromInt(x)),
                              FromInt(w))),
     cy |-> FAdd(v.minY, FDiv(FMul(FSub(v.maxY, v.minY), FromInt(y)),
                              FromInt(h)))]

\* the escape value Draw computes for the point c
EscapeValue(gm, c, maxIter) ==
    IF gm.fractalType = FractalMandelbrot
    THEN mandelbrot(c.cx, c.cy, maxIter)
    ELSE julia(c.cx, c.cy, gm.juliaX, gm.juliaY, maxIter)

\* clr := getColor(int(iterations), maxIter)
MapColor(build, iterations, maxIter) ==
    getColor(IntOf(build, iterations), maxIter)

\* the pixels Draw produces from gm
Render(gm, build) ==
    LET Paint(v) ==
            [p \in Pixels |->
                MapColor(build,
                         EscapeValue(gm, PixelToPlane(v, p[1], p[2],
                                                      ScreenW, ScreenH),
                                     DrawMaxIter),
                         DrawMaxIter)]
    IN Paint(View(gm))

\* Draw that keeps the rectangle it shows in the Game
DrawStoringView ==
    /\ lastOp # "main"
    /\ screen' = Render(g, arch)
    /\ lastOp' = "Draw"
    /\ g' = [g EXCEPT !.minX = View(g).minX, !.maxX = View(g).maxX,
                      !.minY = View(g).minY, !.maxY = View(g).maxY]
    /\ UNCHANGED <<program, arch, mouse, arg, ret>>

\* the host calls Update at least once before the first Draw
Draw ==
    /\ lastOp # "main"
    /\ screen' = Render(g, arch)
    /\ lastOp' = "Draw"
    /\ UNCHANGED <<program, arch, g, mouse, arg, ret>>

Next ==
    \/ \E t \in ElapsedChoices : Update(t)
    \/ Draw
    \/ \E m \in MouseStates : MouseEvent(m)

Spec == Init /\ [][Next]_vars

---------------------------------------------------------------------------
(* properties of the game *)

\* a step of Update: the only steps that end in lastOp = "Update" and leave
\* the mouse alone; a step of Draw likewise
IsUpdateStep == lastOp' = "Update" /\ mouse' = mouse
IsDrawStep == lastOp' = "Draw" /\ mouse' = mouse

ZoomCap == Dec(1, 15)
MaxRate == Dec(5, -1)

\* C1: after every Update, whatever the zoom rate in [0, 0.5], the elapsed
\* time and the zoom before it (the zoom of startup included), the stored
\* zoom satisfies 1 <= zoom <= 1e15.
ZoomClampedAfterUpdate ==
    lastOp # "main" => FLe(One, g.zoom) /\ FLe(g.zoom, ZoomCap)

\* C2: every Update made with a zoom rate > 0 and a positive elapsed time
\* leaves a zoom that is >= the zoom before it.
ZoomNeverDecreases ==
    [][\A t \in ElapsedChoices :
          (t > 0 /\ Update(t) /\ FGt(g'.zoomSpeed, Zero))
              => FGe(g'.zoom, g.zoom)]_vars

\* C3: in the state main builds, before the first Update, zoom is 1 and
\* the zoom rate is > 0.
StartsUnzoomed ==
    lastOp = "main" => g.zoom = One /\ FGt(g.zoomSpeed, Zero)

\* the rate (y - 70) / (270 - 70) * 0.5 as an exact decimal
LinearRate(y) == Dec((y - 70) * 25, -4)

SliderHeld == mouse.pressed /\ mouse.x < 100 /\ mouse.y >= 70 /\ mouse.y <= 270

\* C4: an Update with the button held on the slider at a height y in
\* [70, 270] stores the rate (y - 70) / 200 * 0.5, which is 0 at 70, 0.25 at
\* 170 and 0.5 at 270; an Update with any other input keeps the rate; and
\* the rate is in [0, 0.5] in every state.
SliderSetsLinearRate ==
    /\ [](FLe(Zero, g.zoomSpeed) /\ FLe(g.zoomSpeed, MaxRate))
    /\ [][IsUpdateStep =>
            /\ SliderHeld => g'.zoomSpeed = LinearRate(mouse.y)
            /\ SliderHeld /\ mouse.y = 70 => g'.zoomSpeed = Zero
            /\ SliderHeld /\ mouse.y = 170 => g'.zoomSpeed = Dec(25, -2)
            /\ SliderHeld /\ mouse.y = 270 => g'.zoomSpeed = MaxRate
            /\ ~SliderHeld => g'.zoomSpeed = g.zoomSpeed]_vars

\* an Update at the midpoint of the slider has stored 0.25
SliderMidpointApplied ==
    /\ lastOp = "Update"
    /\ mouse = [pressed |-> TRUE, x |-> 99, y |-> 170]
    /\ g.zoomSpeed = Dec(25, -2)

ToggleHeld ==
    /\ program = "Fractals"
    /\ mouse.pressed /\ mouse.x < 100
    /\ ~(mouse.y >= 70 /\ mouse.y <= 270)
    /\ mouse.y >= 300 /\ mouse.y <= 340

\* C5: toggleFractal alternates the two kinds, so that two toggles in a row
\* give back the kind they started from; a toggle that enters Julia sets
\* (juliaX, juliaY) to the centre of that instant; a toggle that leaves
\* Julia, and an Update without a toggle, leave (juliaX, juliaY) alone.
ToggleAlternatesAndCaptures ==
    /\ [](toggleFractal(toggleFractal(g)).fractalType = g.fractalType)
    /\ [][IsUpdateStep =>
            /\ ToggleHeld => g'.fractalType = 1 - g.fractalType
            /\ ~ToggleHeld => g'.fractalType = g.fractalType
            /\ (g.fractalType = FractalMandelbrot
                    /\ g'.fractalType = FractalJulia)
                 => g'.juliaX = g.centerX /\ g'.juliaY = g.centerY
            /\ ~(g.fractalType = FractalMandelbrot
                    /\ g'.fractalType = FractalJulia)
                 => g'.juliaX = g.juliaX /\ g'.juliaY = g.juliaY]_vars

\* Julia was entered and left again: the kind is back to Mandelbrot and the
\* constant is still the centre captured on entering
ToggledTwice ==
    /\ lastOp = "Update"
    /\ g.fractalType = FractalMandelbrot
    /\ g.juliaX = g.centerX /\ g.juliaY = g.centerY
    /\ g.juliaX # Zero

\* |a - b| <= tol
Near(a, b, tol) ==
    /\ IsFinite(a) /\ IsFinite(b)
    /\ FLe(FSub(a, b), tol) /\ FLe(FSub(b, a), tol)

\* two units in the last place of the larger of |a| and |b|
Tolerance(a, b) ==
    FMul(Dec(2, -3), MathMax(MathMax(a, FNeg(a)), MathMax(b, FNeg(b))))

\* the corners of the spec: centre -+ half of the base extent over zoom
Corners(gm) ==
    LET Around(width, height) ==
            [lo |-> [cx |-> FSub(gm.centerX, FDiv(width, Two)),
                     cy |-> FSub(gm.centerY, FDiv(height, Two))],
             hi |-> [cx |-> FAdd(gm.centerX, FDiv(width, Two)),
                     cy |-> FAdd(gm.centerY, FDiv(height, Two))]]
    IN Around(FDiv(FSub(gm.maxX, gm.minX), gm.zoom),
              FDiv(FSub(gm.maxY, gm.minY), gm.zoom))

\* the point a fraction px / w of the way from lo to hi
Lerp(lo, hi, px, w) ==
    FAdd(lo, FMul(FDiv(FromInt(px), FromInt(w)), FSub(hi, lo)))

PointNear(c, want, tx, ty) == Near(c.cx, want.cx, tx) /\ Near(c.cy, want.cy, ty)

MapAgrees(v, k, tx, ty) ==
    /\ PixelToPlane(v, 0, 0, ScreenW, ScreenH) = k.lo
    /\ PointNear(PixelToPlane(v, ScreenW, ScreenH, ScreenW, ScreenH), k.hi,
                 tx, ty)
    /\ \A px \in 0 .. ScreenW : \A py \in 0 .. ScreenH :
          PointNear(PixelToPlane(v, px, py, ScreenW, ScreenH),
                    [cx |-> Lerp(k.lo.cx, k.hi.cx, px, ScreenW),
                     cy |-> Lerp(k.lo.cy, k.hi.cy, py, ScreenH)],
                    tx, ty)

MapAgreesWith(v, k) ==
    MapAgrees(v, k, Tolerance(k.lo.cx, k.hi.cx), Tolerance(k.lo.cy, k.hi.cy))

\* C9: for zoom >= 1 the pixel map of Draw sends pixel (0, 0) to the
\* corner (cx - width/2, cy - height/2) and pixel (W, H) to the corner
\* (cx + width/2, cy + height/2), with width = (maxX - minX) / zoom and
\* height = (maxY - minY) / zoom, and every pixel (px, py) to the point
\* the fractions px / W and py / H of the way between them; the values
\* agree to the rounding of the arithmetic, and exactly at pixel (0, 0).
PixelMapIsLinear ==
    (lastOp # "main" /\ FGe(g.zoom, One)) => MapAgreesWith(View(g), Corners(g))

\* Draw has run on a view zoomed in far enough to tell the corners apart
\* and not so far that they coincide
DrewZoomedView ==
    /\ lastOp = "Draw"
    /\ FGt(g.zoom, One) /\ FLt(g.zoom, ZoomCap)
    /\ Corners(g).lo.cx # Corners(g).hi.cx
    /\ Corners(g).lo.cy # Corners(g).hi.cy

\* C10: a Draw leaves the Game as it was, so that only an Update changes
\* it; no step changes the centre or the base bounds; and one Update
\* applies at most one of a new zoom rate and a toggle of the kind.
DrawReadsUpdateWrites ==
    [][/\ IsDrawStep => g' = g
       /\ g' # g => IsUpdateStep
       /\ g'.centerX = g.centerX /\ g'.centerY = g.centerY
       /\ g'.minX = g.minX /\ g'.maxX = g.maxX
       /\ g'.minY = g.minY /\ g'.maxY = g.maxY
       /\ ~(g'.zoomSpeed # g.zoomSpeed /\ g'.fractalType # g.fractalType)
      ]_vars

\* a Draw has painted a pixel from a Game that an Update has changed
DrewAfterUpdate ==
    /\ lastOp = "Draw"
    /\ g # NewGame(program)
    /\ \E p \in Pixels : screen[p] # NoColor

---------------------------------------------------------------------------
(* direct calls of the evaluators and of the colour lookup *)

\* the largest iteration budget of a direct call of an evaluator
MaxIterArg == 4

\* points of the plane given to the evaluators
PlanePoints ==
    {<<Two, Two>>, <<Dec(21, -1), Zero>>, <<Zero, Zero>>, <<Dec(-1, 0), Zero>>,
     <<Dec(3, 0), Zero>>, <<Dec(5, -1), Dec(5, -1)>>, <<Dec(1, 150), Zero>>,
     <<Dec(1, 200), Zero>>, <<Dec(42884, -5), Dec(-231345, -6)>>}

\* Julia constants given to julia
JuliaConstants == {<<Zero, Zero>>, <<Dec(42884, -5), Dec(-231345, -6)>>}

\* escape values and budgets given to the colour lookup
EscapeValues ==
    {Zero, Dec(5, -1), Dec(8653, -4), One, Dec(1944, -3), Dec(59, -1),
     Dec(159, -1), Dec(16, 0), Dec(173, -1), Dec(99, 0), Dec(100, 0),
     Dec(1999, -1), Dec(200, 0), Dec(-5, -1), Dec(-3, 0), Dec(1, 300),
     NaN, PosInf, NegInf}
ColorBudgets == {1, 6, 100, 200}

MandelbrotCalls ==
    {[fn |-> "mandelbrot", x |-> Zero, y |-> Zero, cx |-> p[1], cy |-> p[2],
      v |-> Zero, maxIter |-> n] : p \in PlanePoints, n \in 1 .. MaxIterArg}
JuliaCalls ==
    {[fn |-> "julia", x |-> p[1], y |-> p[2], cx |-> c[1], cy |-> c[2],
      v |-> Zero, maxIter |-> n] :
        p \in PlanePoints, c \in JuliaConstants, n \in 1 .. MaxIterArg}
GetColorCalls ==
    {[fn |-> "getColor", x |-> Zero, y |-> Zero, cx |-> Zero, cy |-> Zero,
      v |-> f, maxIter |-> n] : f \in EscapeValues, n \in ColorBudgets}

CallInit ==
    /\ program = "Fractals"
    /\ arch \in Archs
    /\ g = NewGame(program)
    /\ mouse = [pressed |-> FALSE, x |-> 99, y |-> 170]
    /\ screen = [p \in Pixels |-> NoColor]
    /\ lastOp = "main"
    /\ arg \in MandelbrotCalls \cup JuliaCalls \cup GetColorCalls
    /\ ret = NoResult

CallMandelbrot ==
    /\ arg.fn = "mandelbrot" /\ ~ret.done
    /\ ret' = [done |-> TRUE, value |-> mandelbrot(arg.cx, arg.cy, arg.maxIter),
               index |-> -1, color |-> NoColor]
    /\ UNCHANGED <<program, arch, g, mouse, screen, lastOp, arg>>

CallJulia ==
    /\ arg.fn = "julia" /\ ~ret.done
    /\ ret' = [done |-> TRUE,
               value |-> julia(arg.x, arg.y, arg.cx, arg.cy, arg.maxIter),
               index |-> -1, color |-> NoColor]
    /\ UNCHANGED <<program, arch, g, mouse, screen, lastOp, arg>>

\* getColor(int(iterations), maxIter) as Draw calls it
CallGetColor ==
    /\ arg.fn = "getColor" /\ ~ret.done
    /\ ret' = [done |-> TRUE, value |-> arg.v,
               index |-> PaletteIndex(IntOf(arch, arg.v), arg.maxIter),
               color |-> MapColor(arch, arg.v, arg.maxIter)]
    /\ UNCHANGED <<program, arch, g, mouse, screen, lastOp, arg>>

CallNext == CallMandelbrot \/ CallJulia \/ CallGetColor

CallSpec == CallInit /\ [][CallNext]_vars

---------------------------------------------------------------------------
(* properties of the direct calls *)

Returned(fn) == ret.done /\ arg.fn = fn

\* C6: for every budget maxIter >= 1, every point and every Julia constant,
\* mandelbrot and julia return a value in [0, maxIter].
EscapeValueInRange ==
    (Returned("mandelbrot") \/ Returned("julia")) =>
        FLe(Zero, ret.value) /\ FLe(ret.value, FromInt(arg.maxIter))

AtTwoTwo == Returned("mandelbrot") /\ arg.cx = Two /\ arg.cy = Two

\* C7 as stated: mandelbrot at the point (2, 2) returns a value strictly
\* below the budget N for every N >= 1, N = 1 included.
TwoTwoBelowEveryBudget ==
    AtTwoTwo => FLt(ret.value, FromInt(arg.maxIter))

\* C7: mandelbrot at the point (2, 2) returns a value strictly below the
\* budget N for every N >= 2, and N itself, the value of a point that did
\* not escape, for N = 1.
TwoTwoBelowBudgetFromTwo ==
    AtTwoTwo =>
        /\ arg.maxIter >= 2 => FLt(ret.value, FromInt(arg.maxIter))
        /\ arg.maxIter = 1 => ret.value = FromInt(1)

\* (2, 2) was evaluated with the smallest budget that lets it escape
TwoTwoEscaped ==
    AtTwoTwo /\ arg.maxIter = 2 /\ FLt(ret.value, Two)

\* floor(f) for a finite f >= 0
Floor(f) ==
    IF f.e >= 0 THEN f.m * Pow10(f.e)
    ELSE IF f.e < -4 THEN 0
    ELSE f.m \div Pow10(-f.e)

Palette(v) == colorMapping[(Floor(v) % 16) + 1]

\* C8 as stated: an escape value v <= 0 or v >= maxIter gets the reserved
\* colour; every v with 0 < v < maxIter, 0 < v < 1 included, gets
\* palette[floor(v) mod 16]; the palette is never read outside 0..15.
ColorFromZero ==
    Returned("getColor") =>
        /\ (FLe(arg.v, Zero) \/ FGe(arg.v, FromInt(arg.maxIter)))
              => ret.color = NoColor
        /\ (FGt(arg.v, Zero) /\ FLt(arg.v, FromInt(arg.maxIter)))
              => ret.color = Palette(arg.v)
        /\ ret.index \in -1 .. 15

\* C8: an escape value v < 1 or v >= maxIter, and one that is no number,
\* gets the reserved colour; every v with 1 <= v < maxIter gets
\* palette[floor(v) mod 16], so that v = 5.9 gets palette[5]; the palette is
\* never read outside 0..15.
ColorFromOne ==
    Returned("getColor") =>
        /\ (FLt(arg.v, One) \/ FGe(arg.v, FromInt(arg.maxIter)) \/ IsNaN(arg.v))
              => ret.color = NoColor /\ ret.index = -1
        /\ (FGe(arg.v, One) /\ FLt(arg.v, FromInt(arg.maxIter)))
              => ret.color = Palette(arg.v) /\ ret.index = Floor(arg.v) % 16
        /\ (arg.v = Dec(59, -1) /\ arg.maxIter > 5)
              => ret.color = colorMapping[5 + 1]
        /\ ret.index \in -1 .. 15

\* an escape value between 0 and 1 was looked up under a budget above it
\* and got the reserved colour
FractionGotReserved ==
    /\ Returned("getColor")
    /\ FGt(arg.v, Zero) /\ FLt(arg.v, One) /\ arg.maxIter > 1
    /\ ret.color = NoColor

=============================================================================
